---- MODULE Spec2Model ----
(***************************************************************************)
(* Homogenized coefficient evaluators (sfepy/homogenization/               *)
(* coefs_elastic.py), the sfepy command wrapper (sfepy.py) and the test    *)
(* summary parser of test_install.py, as state machines.                   *)
(*                                                                         *)
(* Numeric fields (float64 arrays in the code) are sequences of integers;  *)
(* dictionaries are functions whose DOMAIN is the set of keys; a Python    *)
(* slice(start, stop) is the record [start |-> start, stop |-> stop].      *)
(***************************************************************************)
EXTENDS Integers, Sequences, FiniteSets, TLC

VARIABLES data, call, proc, rep

vars == <<data, call, proc, rep>>

(***************************************************************************)
(* Bounds of the model.                                                    *)
(***************************************************************************)
\* number of distinct corrector state vectors a pair may hold
NumStateVecs == 2
\* number of distinct perturbation values a pair may hold
NumPiVecs == 2
\* degrees of freedom of each primary variable in a state vector
DofsPerVar == 2
\* largest node count of the field of a variable
MaxNod == 2

(***************************************************************************)
(* Inputs: the index range, the dependency data, the problem context.      *)
(***************************************************************************)
\* the 2 x 2 index range (ir, ic)
Pairs == {<<0, 0>>, <<0, 1>>, <<1, 0>>, <<1, 1>>}

Modes == {"row", "col", "other"}

\* corrs.di.indx: primary variable name -> slice of the state vector
DiIndx ==
    [u |-> [start |-> 0, stop |-> DofsPerVar],
     p |-> [start |-> DofsPerVar, stop |-> 2 * DofsPerVar]]

StateVec(s) == [k \in 1..(2 * DofsPerVar) |-> 10 * s + k]

StateVecs == {StateVec(s) : s \in 1..NumStateVecs}

PiVec(t) == [k \in 1..DofsPerVar |-> 100 * t * k]

PiVecs == {PiVec(t) : t \in 1..NumPiVecs}

\* a Corrector: states for every pair of the range, one index map
Correctors == {[states |-> st, indx |-> DiIndx] : st \in [Pairs -> StateVecs]}

\* a Perturbation field: a value for every pair of the range
Perturbations == [Pairs -> PiVecs]

\* the resolved dependency mapping; a name may be absent from it
DataSet ==
    {[n \in {"pis", "corrs"} |-> IF n = "pis" THEN ps ELSE co] :
        ps \in Perturbations, co \in Correctors}
    \cup {[n \in {"pis"} |-> ps] : ps \in Perturbations}
    \cup {[n \in {"corrs"} |-> co] : co \in Correctors}
    \cup {<<>>}

\* problem.variables: name -> primary_var_name and field.n_nod
Problems ==
    {[Pi1 |-> [primary_var_name |-> "u", n_nod |-> DofsPerVar],
      Pi2 |-> [primary_var_name |-> c2, n_nod |-> DofsPerVar],
      one |-> [primary_var_name |-> "p", n_nod |-> n]] :
        c2 \in {"u", "p"}, n \in 1..MaxNod}

(***************************************************************************)
(* numpy helpers.                                                          *)
(***************************************************************************)
\* v[sl] for a slice sl
Slice(v, sl) == SubSeq(v, sl.start + 1, sl.stop)

\* a + b, elementwise, for arrays of one shape
Add(a, b) == [k \in 1..Len(a) |-> a[k] + b[k]]

\* nm.ones((n,))
Ones(n) == [k \in 1..n |-> 1]

\* what a drained generator gave: the records it yielded, the exception that
\* ended it ("none" when it returned), and the dependency data afterwards
Yielded(var_name, field, d) ==
    [raised |-> "none", records |-> <<<<var_name, field>>>>, data |-> d]

Raised(exc, d) == [raised |-> exc, records |-> <<>>, data |-> d]

\* [data[ii] for ii in self.requires] fails on the first absent name
MissingRequire(requires, d) ==
    \E i \in 1..Len(requires) : requires[i] \notin DOMAIN d


(***************************************************************************)
(* ElasticCoef (CoefSymSym): homogenized elastic tensor.                   *)
(***************************************************************************)
ElasticCoef_mode2var == [row |-> 0, col |-> 1]

\* self.requires, unpacked as (pis, corrs)
ElasticCoef_requires == <<"pis", "corrs">>

\* self.variables
ElasticCoef_variables == <<"Pi1", "Pi2">>

ElasticCoef_var_name_swapped(mode) ==
    ElasticCoef_variables[(1 - ElasticCoef_mode2var[mode]) + 1]

\* var_name = self.variables[self.mode2var[mode]]
ElasticCoef_var_name(mode) ==
    ElasticCoef_variables[ElasticCoef_mode2var[mode] + 1]

\* indx = corrs.di.indx[c_name]; omega = corrs.states[ir,ic][indx]
ElasticCoef_omega(corrs, c_name, ir, ic) ==
    Slice(corrs.states[<<ir, ic>>], corrs.indx[c_name])

ElasticCoef_pi_without_pis(pis, omega, ir, ic) == omega

\* pi = pis[ir,ic] + omega
ElasticCoef_pi(pis, omega, ir, ic) == Add(pis[<<ir, ic>>], omega)

ElasticCoef_get_variables_in_place(problem, ir, ic, d, mode) ==
    IF MissingRequire(ElasticCoef_requires, d)
    THEN Raised("KeyError:data", d)
    ELSE IF mode \notin DOMAIN ElasticCoef_mode2var
    THEN Raised("KeyError:mode2var", d)
    ELSE LET pis == d[ElasticCoef_requires[1]]
             corrs == d[ElasticCoef_requires[2]]
             var_name == ElasticCoef_var_name(mode)
             c_name == problem[var_name].primary_var_name
             omega == ElasticCoef_omega(corrs, c_name, ir, ic)
             pi == ElasticCoef_pi(pis, omega, ir, ic)
         IN  Yielded(var_name, pi,
                     [d EXCEPT ![ElasticCoef_requires[1]][<<ir, ic>>] = pi])

ElasticCoef_get_variables(problem, ir, ic, d, mode) ==
    IF MissingRequire(ElasticCoef_requires, d)
    THEN Raised("KeyError:data", d)
    ELSE IF mode \notin DOMAIN ElasticCoef_mode2var
    THEN Raised("KeyError:mode2var", d)
    ELSE LET pis == d[ElasticCoef_requires[1]]
             corrs == d[ElasticCoef_requires[2]]
             var_name == ElasticCoef_var_name(mode)
             c_name == problem[var_name].primary_var_name
             omega == ElasticCoef_omega(corrs, c_name, ir, ic)
             pi == ElasticCoef_pi(pis, omega, ir, ic)
         IN  Yielded(var_name, pi, d)

(***************************************************************************)
(* ElasticBiotCoef (CoefSym): homogenized elastic Biot coefficient.        *)
(***************************************************************************)
\* self.requires; its first entry is the corrector
ElasticBiotCoef_requires == <<"corrs">>

\* self.variables
ElasticBiotCoef_variables == <<"one", "Pi2">>

ElasticBiotCoef_col_var_name_second == ElasticBiotCoef_variables[2]

\* mode 'col': var_name = self.variables[0]
ElasticBiotCoef_col_var_name == ElasticBiotCoef_variables[1]

\* mode 'row' (the else branch): var_name = self.variables[1]
ElasticBiotCoef_row_var_name == ElasticBiotCoef_variables[2]

ElasticBiotCoef_omega_transposed(corrs, c_name, ir, ic) ==
    Slice(corrs.states[<<ic, ir>>], corrs.indx[c_name])

\* indx = corrs.di.indx[c_name]; omega = corrs.states[ir,ic][indx]
ElasticBiotCoef_omega(corrs, c_name, ir, ic) ==
    Slice(corrs.states[<<ir, ic>>], corrs.indx[c_name])

ElasticBiotCoef_get_variables_zero_fill(problem, ir, ic, d, mode) ==
    IF mode = "col"
    THEN LET var_name == ElasticBiotCoef_col_var_name
             one_var == problem[var_name]
             one == Ones(one_var.n_nod)
         IN  Yielded(var_name, one, d)
    ELSE LET var_name == ElasticBiotCoef_row_var_name
             c_name == problem[var_name].primary_var_name
         IN  IF MissingRequire(ElasticBiotCoef_requires, d)
             THEN Yielded(var_name, [k \in 1..DofsPerVar |-> 0], d)
             ELSE LET corrs == d[ElasticBiotCoef_requires[1]]
                      omega == ElasticBiotCoef_omega(corrs, c_name, ir, ic)
                  IN  Yielded(var_name, omega, d)

ElasticBiotCoef_get_variables(problem, ir, ic, d, mode) ==
    IF mode = "col"
    THEN LET var_name == ElasticBiotCoef_col_var_name
             one_var == problem[var_name]
             one == Ones(one_var.n_nod)
         IN  Yielded(var_name, one, d)
    ELSE LET var_name == ElasticBiotCoef_row_var_name
             c_name == problem[var_name].primary_var_name
         IN  IF MissingRequire(ElasticBiotCoef_requires, d)
             THEN Raised("KeyError:data", d)
             ELSE LET corrs == d[ElasticBiotCoef_requires[1]]
                      omega == ElasticBiotCoef_omega(corrs, c_name, ir, ic)
                  IN  Yielded(var_name, omega, d)


(***************************************************************************)
(* One entry of the tensor: the assembler asks the evaluator for the two   *)
(* substitutions and hands them to the integration engine.                 *)
(***************************************************************************)
RECURSIVE Dot(_, _, _)
Dot(u, v, k) == IF k = 0 THEN 0 ELSE u[k] * v[k] + Dot(u, v, k - 1)

\* the bilinear integration operator applied to the two substituted fields
Bilinear(u, v) == Dot(u, v, Len(u))

\* get_variables in mode order[1] and then order[2] at (ir, ic); the two
\* records are substituted by variable name and integrated
EvaluateEntry(problem, ir, ic, d, order) ==
    LET first == ElasticCoef_get_variables(problem, ir, ic, d, order[1])
        second == ElasticCoef_get_variables(problem, ir, ic, first.data,
                                            order[2])
        subst == [n \in {first.records[1][1], second.records[1][1]} |->
                    IF n = first.records[1][1] THEN first.records[1][2]
                    ELSE second.records[1][2]]
    IN  IF first.raised # "none"
        THEN [raised |-> first.raised, val |-> 0, data |-> first.data]
        ELSE IF second.raised # "none"
        THEN [raised |-> second.raised, val |-> 0, data |-> second.data]
        ELSE [raised |-> "none",
              val |-> Bilinear(subst[ElasticCoef_variables[1]],
                               subst[ElasticCoef_variables[2]]),
              data |-> second.data]

(***************************************************************************)
(* The coefficient evaluation state machine.                               *)
(***************************************************************************)
NoCall == [op |-> "none"]

NoProc == [op |-> "none"]

NoRep == [op |-> "none"]

Init ==
    /\ data \in DataSet
    /\ call = NoCall
    /\ proc = NoProc
    /\ rep = NoRep

ElasticCoefCall ==
    \E problem \in Problems, pair \in Pairs, mode \in Modes :
        LET out == ElasticCoef_get_variables(problem, pair[1], pair[2], data,
                                             mode)
        IN  /\ call = NoCall
            /\ call' = [op |-> "ElasticCoef", problem |-> problem,
                        ir |-> pair[1], ic |-> pair[2], mode |-> mode,
                        raised |-> out.raised, records |-> out.records]
            /\ data' = out.data
            /\ UNCHANGED <<proc, rep>>

ElasticBiotCoefCall ==
    \E problem \in Problems, pair \in Pairs, mode \in Modes :
        LET out == ElasticBiotCoef_get_variables(problem, pair[1], pair[2],
                                                 data, mode)
        IN  /\ call = NoCall
            /\ call' = [op |-> "ElasticBiotCoef", problem |-> problem,
                        ir |-> pair[1], ic |-> pair[2], mode |-> mode,
                        raised |-> out.raised, records |-> out.records]
            /\ data' = out.data
            /\ UNCHANGED <<proc, rep>>

\* the entry at (ir, ic), row then col, and the entry at (ic, ir), col then row
EntryCall ==
    \E problem \in Problems, pair \in Pairs :
        LET here == EvaluateEntry(problem, pair[1], pair[2], data,
                                  <<"row", "col">>)
            there == EvaluateEntry(problem, pair[2], pair[1], here.data,
                                   <<"col", "row">>)
        IN  /\ call = NoCall
            /\ call' = [op |-> "entry", problem |-> problem,
                        ir |-> pair[1], ic |-> pair[2],
                        raised |-> IF here.raised # "none" THEN here.raised
                                   ELSE there.raised,
                        here |-> here.val, there |-> there.val]
            /\ data' = there.data
            /\ UNCHANGED <<proc, rep>>

\* the records of a call are consumed by the integration engine and not
\* retained; the next call follows
Consume ==
    /\ call # NoCall
    /\ call' = NoCall
    /\ UNCHANGED <<data, proc, rep>>

Next == ElasticCoefCall \/ ElasticBiotCoefCall \/ EntryCall \/ Consume

Spec == Init /\ [][Next]_vars


(***************************************************************************)
(* Properties of the coefficient evaluators.                               *)
(***************************************************************************)
IsGetVariables == call.op \in {"ElasticCoef", "ElasticBiotCoef"}

RequiresOf(op) ==
    IF op = "ElasticCoef" THEN ElasticCoef_requires
    ELSE ElasticBiotCoef_requires

\* the sub-vector of the corrector state at (ir, ic) that index_map selects
\* for primary variable c_name, element by element
SubVector(d, ir, ic, c_name) ==
    [k \in 1..(d.corrs.indx[c_name].stop - d.corrs.indx[c_name].start) |->
        d.corrs.states[<<ir, ic>>][d.corrs.indx[c_name].start + k]]

\* C1: for every pair (ir, ic) of the range and every mode in {row, col},
\* ElasticCoef.get_variables yields a field that equals, element by element,
\* pis[ir, ic] plus the sub-vector of corrs.states[ir, ic] selected by
\* index_map[primary variable name of the substituted variable].
C1_ElasticFieldIsPiPlusOmega ==
    (/\ call.op = "ElasticCoef"
     /\ call.mode \in {"row", "col"}
     /\ {"pis", "corrs"} \subseteq DOMAIN data)
    => /\ call.raised = "none"
       /\ Len(call.records) = 1
       /\ LET var_name == call.records[1][1]
              c_name == call.problem[var_name].primary_var_name
              omega == SubVector(data, call.ir, call.ic, c_name)
          IN  /\ Len(call.records[1][2]) = Len(omega)
              /\ \A k \in 1..Len(omega) :
                    call.records[1][2][k]
                        = data.pis[<<call.ir, call.ic>>][k] + omega[k]

C1_Witness ==
    /\ call.op = "ElasticCoef"
    /\ call.mode = "row"
    /\ <<call.ir, call.ic>> = <<0, 1>>
    /\ call.raised = "none"
    /\ call.records = <<<<"Pi1", <<121, 222>>>>>>

\* C2: ElasticBiotCoef.get_variables in mode 'col' always yields the first
\* declared variable with a field of all ones whose length is the node count
\* of that variable, whatever the pair (ir, ic) and the dependency data.
C2_BiotColIsOnes ==
    (call.op = "ElasticBiotCoef" /\ call.mode = "col")
    => /\ call.raised = "none"
       /\ call.records =
            <<<<ElasticBiotCoef_variables[1],
                [k \in 1..call.problem[ElasticBiotCoef_variables[1]].n_nod
                    |-> 1]>>>>

C2_Witness ==
    /\ call.op = "ElasticBiotCoef"
    /\ call.mode = "col"
    /\ <<call.ir, call.ic>> = <<1, 0>>
    /\ call.problem.one.n_nod = MaxNod
    /\ "corrs" \in DOMAIN data
    /\ data.corrs.states[<<1, 0>>] # data.corrs.states[<<0, 0>>]
    /\ Len(call.records[1][2]) = MaxNod

\* C3: ElasticBiotCoef.get_variables in mode 'row' yields the second declared
\* variable with exactly the sub-vector of corrs.states[ir, ic] selected by
\* index_map[its primary variable name], no perturbation value added; the
\* field depends on the corrector only through its state at (ir, ic).
C3_BiotRowIsOmega ==
    (call.op = "ElasticBiotCoef" /\ call.mode = "row"
        /\ "corrs" \in DOMAIN data)
    => /\ call.raised = "none"
       /\ call.records =
            <<<<ElasticBiotCoef_variables[2],
                SubVector(data, call.ir, call.ic,
                    call.problem[ElasticBiotCoef_variables[2]]
                        .primary_var_name)>>>>

C3_Witness ==
    /\ call.op = "ElasticBiotCoef"
    /\ call.mode = "row"
    /\ <<call.ir, call.ic>> = <<0, 1>>
    /\ {"pis", "corrs"} \subseteq DOMAIN data
    /\ data.corrs.states[<<0, 1>>] # data.corrs.states[<<1, 0>>]
    /\ call.problem.Pi2.primary_var_name = "p"
    /\ call.raised = "none"
    /\ call.records[1][2] = SubSeq(data.corrs.states[<<0, 1>>],
                                   DofsPerVar + 1, 2 * DofsPerVar)

\* C4, as claimed: for both evaluators, every mode in {row, col} and every
\* pair, a name of requires absent from data ends get_variables in a
\* missing-dependency error with no substitution record.
C4_MissingDependencyAlwaysRaises ==
    (/\ IsGetVariables
     /\ call.mode \in {"row", "col"}
     /\ MissingRequire(RequiresOf(call.op), data))
    => (call.raised = "KeyError:data" /\ call.records = <<>>)

\* C4, amended: ElasticCoef in every mode in {row, col}, and ElasticBiotCoef
\* in mode 'row', end in a missing-dependency error with no substitution
\* record when a name of requires is absent from data, and an entry built
\* from such a call is not integrated; ElasticBiotCoef in mode 'col' does not
\* read data and yields its record.
C4_MissingDependencyRaisesWhenRead ==
    /\ (/\ IsGetVariables
        /\ call.mode \in {"row", "col"}
        /\ call.op = "ElasticCoef" \/ call.mode = "row"
        /\ MissingRequire(RequiresOf(call.op), data))
       => (call.raised = "KeyError:data" /\ call.records = <<>>)
    /\ (call.op = "entry" /\ MissingRequire(ElasticCoef_requires, data))
       => call.raised = "KeyError:data"
    /\ (/\ call.op = "ElasticBiotCoef"
        /\ call.mode = "col"
        /\ MissingRequire(RequiresOf(call.op), data))
       => (call.raised = "none" /\ Len(call.records) = 1)

C4_Witness ==
    /\ call.op = "ElasticBiotCoef"
    /\ call.mode = "row"
    /\ "corrs" \notin DOMAIN data
    /\ call.raised = "KeyError:data"
    /\ call.records = <<>>

\* C5: when the mode is neither 'row' nor 'col', get_variables of either
\* evaluator fails with a configuration error and yields no substitution
\* record; it never falls into a default branch.
C5_UnknownModeFails ==
    (IsGetVariables /\ call.mode \notin {"row", "col"})
    => (call.raised # "none" /\ call.records = <<>>)

\* C6: a get_variables call, successful or failing, leaves the dependency
\* data as it was: every corrector state, the index map and every
\* perturbation value keep the values they had before the first call.
C6_DataUnchanged == [][data' = data]_vars

C6_Witness ==
    /\ call.op = "ElasticCoef"
    /\ call.raised = "none"
    /\ call.records[1][2] # data.pis[<<call.ir, call.ic>>]

\* C8: every successful get_variables call yields exactly one substitution
\* record whose variable name the mode fixes: ElasticCoef 'row' gives
\* variables[0] and 'col' variables[1]; ElasticBiotCoef 'col' gives
\* variables[0] and 'row' variables[1].
C8_OneRecordNamedByMode ==
    (IsGetVariables /\ call.raised = "none")
    => /\ Len(call.records) = 1
       /\ (call.op = "ElasticCoef" /\ call.mode = "row")
            => call.records[1][1] = ElasticCoef_variables[1]
       /\ (call.op = "ElasticCoef" /\ call.mode = "col")
            => call.records[1][1] = ElasticCoef_variables[2]
       /\ (call.op = "ElasticBiotCoef" /\ call.mode = "col")
            => call.records[1][1] = ElasticBiotCoef_variables[1]
       /\ (call.op = "ElasticBiotCoef" /\ call.mode = "row")
            => call.records[1][1] = ElasticBiotCoef_variables[2]

C8_Witness ==
    /\ call.op = "ElasticCoef"
    /\ call.mode = "col"
    /\ call.raised = "none"
    /\ call.records[1][1] = "Pi2"
    /\ Len(call.records) = 1


(***************************************************************************)
(* sfepy.py: the wrapper of the SfePy commands.                            *)
(***************************************************************************)
\* longest list of additional options given after the command
MaxOptions == 2

\* the *.py scripts present in the scripts-common directory
ScriptNames == {"simple", "extractor", "postproc"}

OptionStrings == {"-o", "out", "--help"}

OptionLists == UNION {[1..n -> OptionStrings] : n \in 0..MaxOptions}

\* bin_dir: relative in the source tree, under sfepy.data_dir otherwise
BinDir(in_source_tree) ==
    IF in_source_tree THEN "scripts-common"
    ELSE "/usr/share/sfepy/scripts-common"

\* dict(zip(cmd, scripts)): command name -> path of its script
get_commands(in_source_tree) ==
    [c \in ScriptNames |-> BinDir(in_source_tree) \o "/" \o c \o ".py"]

\* sep.join(seq)
RECURSIVE Join(_, _)
Join(sep, seq) ==
    IF seq = <<>> THEN ""
    ELSE IF Len(seq) = 1 THEN seq[1]
    ELSE seq[1] \o sep \o Join(sep, Tail(seq))

\* the interpreters that may run the wrapper
Interpreters == {"python2", "python3"}

\* argparse.ArgumentParser(..., version=...): the keyword exists in the
\* argparse of Python 2 only; Python 3 raises TypeError in the constructor
ArgumentParserAcceptsVersion(interpreter) == interpreter = "python2"

\* main(): get_commands, then the parser is built, then the arguments are
\* parsed and the argument list is handed to subprocess.call; the outcome is
\* the TypeError of the constructor, the parser's refusal of a command that
\* is no choice, or the call
main(interpreter, window, command, options, in_source_tree) ==
    LET cmd_list == get_commands(in_source_tree)
        py_cmd == IF ~window THEN "python" ELSE "pythonw"
    IN  IF ~ArgumentParserAcceptsVersion(interpreter)
        THEN [status |-> "TypeError", args |-> <<>>]
        ELSE IF command \notin DOMAIN cmd_list
        THEN [status |-> "usage error", args |-> <<>>]
        ELSE [status |-> "called",
              args |-> <<py_cmd, cmd_list[command], Join(", ", options)>>]

InitMain ==
    /\ data = <<>>
    /\ call = NoCall
    /\ proc = NoProc
    /\ rep = NoRep

MainCall ==
    \E interpreter \in Interpreters, window \in BOOLEAN,
       command \in ScriptNames \cup {"nosuch"},
       options \in OptionLists, in_source_tree \in BOOLEAN :
        LET run == main(interpreter, window, command, options, in_source_tree)
        IN  /\ proc = NoProc
            /\ proc' = [op |-> "main", interpreter |-> interpreter,
                        window |-> window,
                        command |-> command, options |-> options,
                        in_source_tree |-> in_source_tree,
                        status |-> run.status, args |-> run.args]
            /\ UNCHANGED <<data, call, rep>>

NextMain == MainCall

SpecMain == InitMain /\ [][NextMain]_vars

\* C9: main passes the additional options directly to the selected command:
\* the script is started with exactly the options given after the command as
\* its arguments, one argument per option, in the same order and unchanged.
C9_OptionsPassedUnchanged ==
    (proc.op = "main" /\ proc.command \in ScriptNames)
    => /\ proc.status = "called"
       /\ Len(proc.args) = 2 + Len(proc.options)
       /\ \A i \in 1..Len(proc.options) : proc.args[2 + i] = proc.options[i]

(***************************************************************************)
(* test_install.py: report_tests, the parser of the test summary.          *)
(***************************************************************************)
Digits == {"0", "1", "2", "3", "4", "5", "6", "7", "8", "9"}

DigitsDot == Digits \cup {"."}

L_failed == <<" ", "f", "a", "i", "l", "e", "d", ",", " ">>

L_passed == <<" ", "p", "a", "s", "s", "e", "d">>

L_comma == <<",", " ">>

L_warnings == <<" ", "w", "a", "r", "n", "i", "n", "g", "s">>

L_in == <<" ", "i", "n", " ">>

L_seconds == <<" ", "s", "e", "c", "o", "n", "d", "s">>

\* the literal lit stands in s at position i
StartsWith(s, i, lit) ==
    /\ i + Len(lit) - 1 <= Len(s)
    /\ \A k \in 1..Len(lit) : s[i + k - 1] = lit[k]

\* the end (exclusive) of the longest run of characters of cls from i
RECURSIVE RunEnd(_, _, _)
RunEnd(s, i, cls) ==
    IF i <= Len(s) /\ s[i] \in cls THEN RunEnd(s, i + 1, cls) ELSE i

\* (?:([0-9]+) failed, )* from i: where it ends and what group 1 holds
RECURSIVE FailedReps(_, _, _)
FailedReps(s, i, g) ==
    LET j == RunEnd(s, i, Digits)
    IN  IF j > i /\ StartsWith(s, j, L_failed)
        THEN FailedReps(s, j + Len(L_failed), SubSeq(s, i, j - 1))
        ELSE [pos |-> i, group |-> g]

\* (?:, ([0-9]+) warnings)* from i: where it ends and what group 3 holds
RECURSIVE WarningsReps(_, _, _)
WarningsReps(s, i, g) ==
    LET j == RunEnd(s, i + Len(L_comma), Digits)
    IN  IF /\ StartsWith(s, i, L_comma)
           /\ j > i + Len(L_comma)
           /\ StartsWith(s, j, L_warnings)
        THEN WarningsReps(s, j + Len(L_warnings),
                          SubSeq(s, i + Len(L_comma), j - 1))
        ELSE [pos |-> i, group |-> g]

\* " in ([0-9.]+) seconds" stands at q
TimeAt(s, q) ==
    /\ StartsWith(s, q, L_in)
    /\ RunEnd(s, q + Len(L_in), DigitsDot) > q + Len(L_in)
    /\ StartsWith(s, RunEnd(s, q + Len(L_in), DigitsDot), L_seconds)

\* the positions .* can reach from i: up to the end of the line
LineEnd(s, i) == RunEnd(s, i, {s[k] : k \in 1..Len(s)} \ {"\n"})

None == <<"None">>

NoMatch == [found |-> FALSE]

\* the pattern matched from position i: its groups, or NoMatch
MatchAt(s, i) ==
    LET failed == FailedReps(s, i, None)
        j == RunEnd(s, failed.pos, Digits)
    IN  IF ~(j > failed.pos /\ StartsWith(s, j, L_passed))
        THEN NoMatch
        ELSE LET warnings == WarningsReps(s, j + Len(L_passed), None)
                 times == {q \in warnings.pos..LineEnd(s, warnings.pos) :
                              TimeAt(s, q)}
             IN  IF times = {}
                 THEN NoMatch
                 ELSE LET q == CHOOSE x \in times : \A y \in times : y <= x
                      IN  [found |-> TRUE,
                           groups |-> <<failed.group,
                                        SubSeq(s, failed.pos, j - 1),
                                        warnings.group,
                                        SubSeq(s, q + Len(L_in),
                                               RunEnd(s, q + Len(L_in),
                                                      DigitsDot) - 1)>>]

\* search(out): the leftmost match
Search(s) ==
    LET starts == {i \in 1..Len(s) : MatchAt(s, i).found}
    IN  IF starts = {} THEN NoMatch
        ELSE MatchAt(s, CHOOSE i \in starts : \A k \in starts : i <= k)

\* report_tests(out, return_item): the except branch sets ok = False and the
\* statement after the try sets ok again
report_tests(out, return_item) ==
    LET m == Search(out)
        stats == IF m.found
                 THEN [k \in 1..4 |-> IF m.groups[k] # None THEN m.groups[k]
                                      ELSE <<"0">>]
                 ELSE <<<<"0">>, <<"0">>, <<"0">>, <<"-", "1">>>>
        ok == stats[1] = <<"0">>
    IN  [ok |-> ok, stats |-> stats,
         result |-> IF return_item THEN <<ok, stats[1]>> ELSE <<ok>>]

\* outputs of the test run: an optional count of failed tests, the count of
\* passed tests, optional warnings, the time
Counts == {<<"0">>, <<"3">>, <<"1", "2">>}

FailedParts ==
    {<<>>} \cup {n \o L_failed : n \in Counts}
    \cup {<<"3">> \o L_failed \o <<"0">> \o L_failed}

PassedParts == {<<>>, <<"5">> \o L_passed}

WarningsParts == {<<>>, L_comma \o <<"2">> \o L_warnings}

Tails ==
    {<<>>, <<" ", "i", "n", " ", "1", ".", "5", " ", "s", "e", "c", "o", "n", "d", "s">>, 
      <<" ", "i", "n", " ", "2", "s">>, 
      <<"\n", " ", "i", "n", " ", "1", ".", "5", " ", "s", "e", "c", "o", "n", "d", "s">>, 
      <<" ", "i", "n", " ", "1", ".", "5", " ", "s", "e", "c", "o", "n", "d", "s", " ", "i", "n", " ", "0", ".", "2", "5", " ", "s", "e", "c", "o", "n", "d", "s">>}

Outputs ==
    {pre \o f \o ps \o w \o t :
        pre \in {<<>>, <<"=", " ">>}, f \in FailedParts, ps \in PassedParts,
        w \in WarningsParts, t \in Tails}

InitReport ==
    /\ data = <<>>
    /\ call = NoCall
    /\ proc = NoProc
    /\ rep = NoRep

\* main(): tok, failed = report_tests(out, return_item=True), and tok as text
ReportTestsCall ==
    \E out \in Outputs, return_item \in BOOLEAN :
        LET r == report_tests(out, return_item)
        IN  /\ rep = NoRep
            /\ rep' = [op |-> "report_tests", out |-> out,
                       return_item |-> return_item, ok |-> r.ok,
                       stats |-> r.stats, result |-> r.result,
                       tok |-> IF r.ok THEN "ok" ELSE "fail"]
            /\ UNCHANGED <<data, call, proc>>

NextReport == ReportTestsCall

SpecReport == InitReport /\ [][NextReport]_vars

\* C10: report_tests returns ok = True only when the output contains a test
\* summary that reports zero failed tests; for an output in which no summary
\* of passed tests is found it returns ok = False, with the failed count '0'
\* and the time '-1' as placeholder statistics.
C10_OkOnlyWithSummary ==
    rep.op = "report_tests"
    => /\ rep.ok => (/\ Search(rep.out).found
                     /\ Search(rep.out).groups[1] \in {None, <<"0">>})
       /\ ~Search(rep.out).found
            => /\ rep.ok = FALSE
               /\ rep.stats[1] = <<"0">>
               /\ rep.stats[4] = <<"-", "1">>

====
